---- MODULE Spec2Model ----
(***************************************************************************)
(* Model of agent/src/artifact/upload.rs: the BEP JSON tailing parser      *)
(* (BepJsonParser), the retry loop of upload() and the staging/upload of   *)
(* test logs (upload_test_logs, upload_artifacts, test_label_to_path).     *)
(*                                                                         *)
(* Text is modelled as sequences of tokens.  A token of the event log is   *)
(* one of "{", "}", "\n", "0" (a JSON number) or a member token that       *)
(* stands for a group of "key": value members of an object.  A string      *)
(* value (label, status, uri) is a sequence of tokens as well, so that     *)
(* prefix tests and character replacement are computed, not assumed.       *)
(*                                                                         *)
(* Spec is a run of upload() next to the producer of the log.  SpecPath    *)
(* is a call of test_label_to_path on its own, for every root, label and   *)
(* attempt within the bounds.  SpecCommand is a buildkite::Command         *)
(* (agent/src/buildkite.rs) under any sequence of command(), agent() and   *)
(* label() calls.                                                          *)
(***************************************************************************)
EXTENDS Integers, Sequences, FiniteSets, TLC

VARIABLES
    script,               \* everything the producer will ever write
    written,              \* number of tokens of script already in the file
    mode,                 \* upload(): mode
    monitor_flaky_tests,  \* upload(): monitor_flaky_tests
    offset,               \* BepJsonParser.offset
    line,                 \* BepJsonParser.line
    done,                 \* BepJsonParser.done
    test_logs,            \* BepJsonParser.test_logs
    retries,              \* upload(): retries
    test_log_offset,      \* upload(): test_log_offset
    pc,                   \* position of upload() / parse()
    result,               \* Result of the parse() call in progress / just returned
    ret,                  \* Result returned by upload()
    ioFaults,             \* number of I/O faults injected so far
    h,                    \* history of the run (observations only)
    fn,                   \* a call of test_label_to_path: its arguments and its result
    cmd                   \* a buildkite::Command and the command() calls made on it

vars == <<script, written, mode, monitor_flaky_tests, offset, line, done,
          test_logs, retries, test_log_offset, pc, result, ret, ioFaults, h, fn, cmd>>

-----------------------------------------------------------------------------
(* Bounds *)

MaxFileLen == 8
MaxIoFaults == 1
MaxLabelLen == 5
MaxAttempt == 2
MaxCalls == 4

-----------------------------------------------------------------------------
(* JSON text and values *)

Str(s) == [t |-> "str", s |-> s]
Absent == [t |-> "absent", s |-> <<>>]
Num == [t |-> "num", s |-> <<>>]

Arr(a) == [t |-> "arr", a |-> a]
NoArr(t) == [t |-> t, a |-> <<>>]

FoxLabel == <<"/", "/", "f", ":", "b">>
FileUri(p) == <<"file://", p>>
HttpUri(p) == <<"http://", p>>

\* The members each member token stands for.  "L" is "lastMessage": true,
\* "M" is "lastMessage": "yes" (not a boolean), the "S." tokens carry
\* "id": {"testSummary": {"label": ..}} and "testSummary": {..}.
SummaryTokens == {"S1", "S2", "S3", "S4", "S5", "S6"}
MemberTokens == SummaryTokens \cup {"L", "M"}

Members(tok) ==
    CASE tok = "S1" -> [label |-> Str(FoxLabel), overallStatus |-> Str(<<"FAILED">>),
                        failed |-> Arr(<<Str(FileUri("x"))>>)]
      [] tok = "S2" -> [label |-> Str(FoxLabel), overallStatus |-> Str(<<"FLAKY">>),
                        failed |-> Arr(<<Str(HttpUri("y")), Str(FileUri("x"))>>)]
      [] tok = "S3" -> [label |-> Str(<<"/", "/", ":", "t">>), overallStatus |-> Str(<<"PASSED">>),
                        failed |-> Arr(<<Str(FileUri("z"))>>)]
      [] tok = "S4" -> [label |-> Num, overallStatus |-> Str(<<"TIMEOUT">>),
                        failed |-> Arr(<<Absent>>)]
      [] tok = "S5" -> [label |-> Str(FoxLabel), overallStatus |-> Absent,
                        failed |-> Arr(<<Str(FileUri("x"))>>)]
      [] tok = "S6" -> [label |-> Absent, overallStatus |-> Num,
                        failed |-> NoArr("str")]
      [] OTHER -> [label |-> Absent, overallStatus |-> Absent, failed |-> NoArr("absent")]

IsWhitespace(b) == b = "\n"

RECURSIVE TrimStart(_)
TrimStart(s) == IF s # <<>> /\ IsWhitespace(Head(s)) THEN TrimStart(Tail(s)) ELSE s

RECURSIVE TrimEnd(_)
TrimEnd(s) ==
    IF s # <<>> /\ IsWhitespace(s[Len(s)]) THEN TrimEnd(SubSeq(s, 1, Len(s) - 1)) ELSE s

\* serde_json::from_str::<Value>: one JSON value, whitespace allowed around it.
IsObjectText(t) ==
    /\ Len(t) >= 2
    /\ t[1] = "{"
    /\ t[Len(t)] = "}"
    /\ \A i \in 2..(Len(t) - 1) : t[i] \in MemberTokens

IsValueText(t) == t = <<"0">> \/ IsObjectText(t)

\* BuildEvent::from_json_str
from_json_str(str) ==
    LET t == TrimEnd(TrimStart(str)) IN
    IF ~IsValueText(t) THEN [ok |-> FALSE, err |-> "syntax", value |-> <<>>]
    ELSE IF ~IsObjectText(t) THEN [ok |-> FALSE, err |-> "not_object", value |-> <<>>]
    ELSE [ok |-> TRUE, err |-> "", value |-> SubSeq(t, 2, Len(t) - 1)]

\* BuildEvent::get for the paths the program asks for.  A later member of an
\* object overrides an earlier one with the same key.
RECURSIVE LastWith(_, _)
LastWith(value, S) ==
    IF value = <<>> THEN ""
    ELSE IF value[Len(value)] \in S THEN value[Len(value)]
    ELSE LastWith(SubSeq(value, 1, Len(value) - 1), S)

get_lastMessage(value) ==
    LET tok == LastWith(value, {"L", "M"}) IN
    IF tok = "L" THEN [t |-> "bool", b |-> TRUE]
    ELSE IF tok = "M" THEN [t |-> "str", b |-> FALSE]
    ELSE [t |-> "absent", b |-> FALSE]

get_summary(value) == LastWith(value, SummaryTokens)

\* BuildEvent::is_test_summary
is_test_summary(value) == get_summary(value) # ""

\* BuildEvent::is_last_message
is_last_message(value) ==
    LET v == get_lastMessage(value) IN IF v.t = "bool" THEN v.b ELSE FALSE

\* a conversion that prints a value that is not a string (to_string)
as_str_or_empty_Shown(v) == IF v.t = "str" THEN v.s ELSE <<"null">>

\* .and_then(|v| v.as_str()).unwrap_or("")
as_str_or_empty(v) == IF v.t = "str" THEN v.s ELSE <<>>

\* BepJsonParser::on_test_summary: the TestLog pushed for a summary event
on_test_summary(value) ==
    LET m == Members(get_summary(value))
        failed_outputs == IF m.failed.t = "arr" THEN m.failed.a ELSE <<>>
    IN [target |-> as_str_or_empty(m.label),
        status |-> as_str_or_empty(m.overallStatus),
        paths |-> [i \in 1..Len(failed_outputs) |-> as_str_or_empty(failed_outputs[i])]]

-----------------------------------------------------------------------------
(* The event log and its producer *)

Lines ==
    { <<"{", "S1", "}", "\n">>,
      <<"{", "S2", "}", "\n">>,
      <<"{", "S3", "}", "\n">>,
      <<"{", "S4", "}", "\n">>,
      <<"{", "S5", "}", "\n">>,
      <<"{", "S6", "}", "\n">>,
      <<"{", "L", "}", "\n">>,
      <<"{", "S2", "L", "}", "\n">>,
      <<"{", "M", "}", "\n">>,
      <<"{", "}", "\n">>,
      <<"0", "\n">> }

\* the logs of at most n tokens made of these lines
RECURSIVE LogsUpTo(_)
LogsUpTo(n) ==
    {<<>>} \cup UNION {{l \o r : r \in LogsUpTo(n - Len(l))} : l \in {x \in Lines : Len(x) <= n}}

Logs == LogsUpTo(MaxFileLen)

file == SubSeq(script, 1, written)

\* BufRead::read_line at position off of f: up to and including the next
\* newline, or up to the end of the file
RECURSIVE read_line(_, _)
read_line(f, off) ==
    IF off >= Len(f) THEN <<>>
    ELSE IF f[off + 1] = "\n" THEN <<"\n">>
    ELSE <<f[off + 1]>> \o read_line(f, off + 1)

-----------------------------------------------------------------------------
(* Reference reading of a file, used to state the properties *)

\* What reading f from position off line by line yields, up to the first line
\* that does not decode, the first terminal record or the end of the file.
RECURSIVE Scan(_, _)
Scan(f, off) ==
    LET str == read_line(f, off)
        ev == from_json_str(str)
    IN IF str = <<>>
       THEN [ok |-> TRUE, offset |-> off, lines |-> 0, logs |-> <<>>, done |-> FALSE]
       ELSE IF ~ev.ok
       THEN [ok |-> FALSE, offset |-> off, lines |-> 0, logs |-> <<>>, done |-> FALSE]
       ELSE IF is_last_message(ev.value)
       THEN [ok |-> TRUE, offset |-> off + Len(str), lines |-> 1, logs |-> <<>>, done |-> TRUE]
       ELSE LET r == Scan(f, off + Len(str)) IN
            [ok |-> r.ok, offset |-> r.offset, lines |-> r.lines + 1,
             logs |-> (IF is_test_summary(ev.value) THEN <<on_test_summary(ev.value)>> ELSE <<>>)
                      \o r.logs,
             done |-> r.done]

\* the log the producer writes consists of newline-terminated object records
\* only, the last of which, and no other, is the terminal record
WellFormed(f) ==
    LET r == Scan(f, 0) IN r.ok /\ r.done /\ r.offset = Len(f) /\ f[Len(f)] = "\n"

-----------------------------------------------------------------------------
(* Paths *)

MAIN_SEPARATOR == "/"

FILE_PROTOCOL == "file://"

\* the directory make_tmpdir_path returns (env::temp_dir()/bazelci-agent-<i>)
TmpDir == <<"/", "tmp", "/", "bazelci-agent">>

\* a trim that removes one leading c only (strip_prefix)
trim_start_matches_Once(s, c) ==
    IF s # <<>> /\ Head(s) = c THEN Tail(s) ELSE s

RECURSIVE trim_start_matches(_, _)
trim_start_matches(s, c) ==
    IF s # <<>> /\ Head(s) = c THEN trim_start_matches(Tail(s), c) ELSE s

\* PathBuf::push of a relative component
push(path, name) ==
    IF path # <<>> /\ path[Len(path)] # MAIN_SEPARATOR
    THEN path \o <<MAIN_SEPARATOR>> \o name
    ELSE path \o name

\* Path::join: an absolute argument replaces the base
join(base, path) ==
    IF path # <<>> /\ Head(path) = MAIN_SEPARATOR THEN path ELSE push(base, path)

\* Path::parent: the path without its last component
RECURSIVE parent(_)
parent(path) ==
    IF path = <<>> THEN <<>>
    ELSE IF path[Len(path)] = MAIN_SEPARATOR
         THEN IF Len(path) = 1 THEN path ELSE SubSeq(path, 1, Len(path) - 1)
    ELSE parent(SubSeq(path, 1, Len(path) - 1))

\* Path::strip_prefix(base) of a path that lies under base
strip_prefix(path, base) ==
    trim_start_matches(SubSeq(path, Len(base) + 1, Len(path)), MAIN_SEPARATOR)

\* a file name that numbers the first attempt as well
LogFileName_Numbered(attempt) == "attempt_" \o ToString(attempt) \o ".log"

LogFileName(attempt) ==
    IF attempt = 0 THEN "test.log" ELSE "attempt_" \o ToString(attempt) \o ".log"

test_label_to_path(tmpdir, label, attempt) ==
    LET replaced == [i \in 1..Len(label) |->
                        IF label[i] \in {"/", ":"} THEN MAIN_SEPARATOR ELSE label[i]]
        path == trim_start_matches(replaced, MAIN_SEPARATOR)
    IN join(tmpdir, push(path, <<LogFileName(attempt)>>))

-----------------------------------------------------------------------------
(* Staging and uploading *)

\* the status filter letting PASSED through
UploadStatus_WithPassed == {<<"FAILED">>, <<"TIMEOUT">>, <<"FLAKY">>, <<"PASSED">>}

\* upload(): status
UploadStatus == {<<"FAILED">>, <<"TIMEOUT">>, <<"FLAKY">>}

starts_with(s, prefix) == s # <<>> /\ Head(s) = prefix

InitialAttempt(test_log) == IF Len(test_log.paths) > 1 THEN 1 ELSE 0

\* The inner loop of upload_test_logs over the paths j.. of one test log:
\* the files to stage, in order.  e is the index of the log in test_logs.
RECURSIVE StagePaths(_, _, _, _, _)
StagePaths(tmpdir, e, test_log, j, attempt) ==
    IF j > Len(test_log.paths) THEN <<>>
    ELSE IF ~starts_with(test_log.paths[j], FILE_PROTOCOL)
         THEN StagePaths(tmpdir, e, test_log, j + 1, attempt)
    ELSE <<[e |-> e, j |-> j,
            src |-> Tail(test_log.paths[j]),
            new_path |-> test_label_to_path(tmpdir, test_log.target, attempt)]>>
         \o StagePaths(tmpdir, e, test_log, j + 1, attempt + 1)

\* The outer loop of upload_test_logs: logs is a sequence of indices into all
RECURSIVE StageLogs(_, _, _)
StageLogs(tmpdir, all, logs) ==
    IF logs = <<>> THEN <<>>
    ELSE StagePaths(tmpdir, Head(logs), all[Head(logs)], 1, InitialAttempt(all[Head(logs)]))
         \o StageLogs(tmpdir, all, Tail(logs))

NoBackendCall == <<>>

\* an upload_artifacts that calls the backend whatever the mode
upload_artifacts_AnyMode(cwd, artifacts, m, backendFails) ==
    [printed |-> <<>>,
     backend |-> <<[cwd |-> cwd, artifacts |-> artifacts]>>,
     ok |-> ~backendFails]

\* upload_artifacts: what is printed, which backend calls are made, the result
upload_artifacts(cwd, artifacts, m, backendFails) ==
    IF m = "Dry"
    THEN [printed |-> [i \in 1..Len(artifacts) |->
                          IF cwd = <<>> THEN artifacts[i] ELSE join(cwd, artifacts[i])],
          backend |-> NoBackendCall, ok |-> TRUE]
    ELSE [printed |-> <<>>,
          backend |-> <<[cwd |-> cwd, artifacts |-> artifacts]>>,
          ok |-> ~backendFails]

NoStage ==
    [called |-> FALSE, logs |-> <<>>, mkdirs |-> <<>>, copies |-> <<>>, staged |-> <<>>,
     artifacts |-> <<>>, printed |-> <<>>, backend |-> NoBackendCall, ok |-> TRUE]

\* The operations upload_test_logs may fail at: 0 is no failure, 2k-1 the
\* create_dir_all and 2k the copy of the k-th staged file, 2n+1 the backend.
FaultPoints(tmpdir, all, logs, m) ==
    IF m = "Dry" \/ logs = <<>> THEN {0}
    ELSE 0..(2 * Len(StageLogs(tmpdir, all, logs)) + 1)

\* upload_test_logs(tmpdir, test_logs, mode) with a failure at operation fault
upload_test_logs(tmpdir, all, logs, m, fault) ==
    IF logs = <<>> THEN [NoStage EXCEPT !.called = TRUE]
    ELSE
    LET items == StageLogs(tmpdir, all, logs)
        n == Len(items)
        \* number of items whose create_dir_all / copy succeeded, and number of
        \* items pushed to artifacts before the failure
        dirs == IF m = "Dry" THEN 0
                ELSE IF fault \in 1..(2 * n) THEN fault \div 2 ELSE n
        copied == IF m = "Dry" THEN 0
                  ELSE IF fault \in 1..(2 * n) THEN (fault - 1) \div 2 ELSE n
        staged == IF fault \in 1..(2 * n) THEN (fault - 1) \div 2 ELSE n
        artifacts == [k \in 1..staged |-> strip_prefix(items[k].new_path, tmpdir)]
        up == IF fault \in 1..(2 * n)
              THEN [printed |-> <<>>, backend |-> NoBackendCall, ok |-> FALSE]
              ELSE upload_artifacts(tmpdir, artifacts, m, fault = 2 * n + 1)
    IN [called |-> TRUE,
        logs |-> logs,
        mkdirs |-> [k \in 1..dirs |-> parent(items[k].new_path)],
        copies |-> [k \in 1..copied |-> items[k]],
        staged |-> [k \in 1..staged |-> items[k]],
        artifacts |-> artifacts,
        printed |-> up.printed,
        backend |-> up.backend,
        ok |-> up.ok]
-----------------------------------------------------------------------------
(* State *)

\* a retry budget of one less
max_retries_OneLess == 5 - 1

max_retries == 5

NoResult == [st |-> "none", kind |-> "", line |-> 0, path |-> FALSE]
Ok == [st |-> "Ok", kind |-> "", line |-> 0, path |-> FALSE]

\* an error without the context of the file's path
Err_NoContext(kind, ln) == [st |-> "Err", kind |-> kind, line |-> ln, path |-> FALSE]

\* path: the error's message names the file (with_context of open and seek, the
\* "{path}:{line}" of a decode error, the context of upload_bep_json_file's
\* command); the error of read_line is passed on by "?" as it is
Err(kind, ln) == [st |-> "Err", kind |-> kind, line |-> ln, path |-> kind # "read"]

DecodeErrors == {"syntax", "not_object"}
IoErrors == {"open", "seek", "read"}

NoPos == [offset |-> -1, line |-> -1, n |-> -1]

NoUpload == [printed |-> <<>>, backend |-> NoBackendCall, ok |-> TRUE]

\* Command::default(), with no call made on it (plugins are left out: no
\* operation modelled here reads them)
DefaultCommand == [agents |-> {}, command |-> "", commands |-> <<>>, label |-> ""]

\* self: the Command; given: the strings command() was called with, in call
\* order; onDefault: the first command() call found the Command as
\* Command::default() made it
NoCommand == [self |-> DefaultCommand, given |-> <<>>, onDefault |-> FALSE]

NoCall == [root |-> <<>>, label |-> <<>>, attempt |-> 0, path |-> <<>>, pc |-> "idle"]

Min(a, b) == IF a < b THEN a ELSE b

InitHistory ==
    [fails |-> 0,         \* parse() calls that failed since the last one that succeeded
     order |-> <<>>,      \* indices of the test logs in the order they were passed on
     stage |-> NoStage,   \* what the upload_test_logs call of the last iteration did
     slice |-> <<>>,      \* the test logs the last iteration passed on, before the status filter
     late |-> FALSE,      \* a test log found by a failing parse() was passed on later
     stable |-> 0,        \* parse() calls that returned Ok, not done, since the last append (max 2)
     errAt |-> NoPos,     \* where the previous parse() failed to decode a line, if it did
     quiet |-> TRUE,      \* nothing was appended since the running parse() was called
     tmpdirs |-> 0,       \* staging root directories created
     bepUploads |-> 0,    \* whole-file uploads attempted
     bep |-> NoUpload,    \* what the whole-file upload did
     p0 |-> NoPos,        \* the parser's position when the running parse() was called
     copying |-> FALSE,   \* a non-dry upload_test_logs call had a file to stage
     partial |-> 0]       \* consecutive parse() calls that found the last record of a
                          \* well-formed log incomplete (kept once it is 5)

Init ==
    /\ script \in Logs
    /\ written = 0
    /\ mode \in {"Dry", "Buildkite"}
    /\ monitor_flaky_tests \in BOOLEAN
    /\ offset = 0
    /\ line = 1
    /\ done = FALSE
    /\ test_logs = <<>>
    /\ retries = max_retries
    /\ test_log_offset = 0
    /\ pc = "start"
    /\ result = NoResult
    /\ ret = NoResult
    /\ ioFaults = 0
    /\ h = InitHistory
    /\ fn = NoCall
    /\ cmd = NoCommand

Running == pc \in {"start", "parse", "read", "match"}

-----------------------------------------------------------------------------
(* The producer: appends the next tokens of the log, in chunks of any size, *)
(* while upload() runs                                                      *)

ProducerAppend ==
    /\ Running
    /\ written < Len(script)
    /\ \E w \in (written + 1)..Len(script) : written' = w
    /\ h' = [h EXCEPT !.stable = 0, !.quiet = FALSE]
    /\ UNCHANGED <<cmd, fn, script, mode, monitor_flaky_tests, offset, line, done, test_logs,
                   retries, test_log_offset, pc, result, ret, ioFaults>>

-----------------------------------------------------------------------------
(* upload(): lines 31-40 *)

\* a make_tmpdir_path that creates the directory whatever the flag
make_tmpdir_path_Always(should_create_dir_all) == 1

\* make_tmpdir_path(should_create_dir_all): the number of directories created
make_tmpdir_path(should_create_dir_all) == IF should_create_dir_all THEN 1 ELSE 0

Start ==
    /\ pc = "start"
    /\ pc' = "parse"
    /\ h' = [h EXCEPT !.tmpdirs = @ + make_tmpdir_path(mode # "Dry")]
    /\ UNCHANGED <<cmd, fn, script, written, mode, monitor_flaky_tests, offset, line, done,
                   test_logs, retries, test_log_offset, result, ret, ioFaults>>

-----------------------------------------------------------------------------
(* BepJsonParser::parse *)

\* the last record of the file has not got its newline yet
LastRecordIncomplete == written > 0 /\ script[written] # "\n"

\* consecutive calls of parse() that found the last record of a well-formed
\* log incomplete
Polled(n) ==
    IF ~WellFormed(script) THEN 0
    ELSE IF n = 5 THEN 5 ELSE IF LastRecordIncomplete THEN n + 1 ELSE 0

\* the same count when parse() returns: the call counts as well if the record
\* became incomplete only while it ran
Noticed(n) ==
    IF WellFormed(script) /\ n = 0 /\ LastRecordIncomplete THEN 1 ELSE n

\* File::open and seek; either may fail
ParseOpen ==
    /\ pc = "parse"
    /\ \/ /\ pc' = "read"
          /\ result' = NoResult
          /\ h' = [h EXCEPT !.quiet = TRUE, !.stage = NoStage, !.slice = <<>>,
                            !.p0 = [offset |-> offset, line |-> line, n |-> Len(test_logs)],
                            !.partial = Polled(@)]
          /\ UNCHANGED ioFaults
       \/ /\ ioFaults < MaxIoFaults
          /\ ioFaults' = ioFaults + 1
          /\ \E kind \in {"open", "seek"} : result' = Err(kind, 0)
          /\ pc' = "match"
          /\ h' = [h EXCEPT !.quiet = TRUE, !.stage = NoStage, !.slice = <<>>, !.stable = 0,
                            !.p0 = [offset |-> offset, line |-> line, n |-> Len(test_logs)],
                            !.partial = Polled(@)]
    /\ UNCHANGED <<cmd, fn, script, written, mode, monitor_flaky_tests, offset, line, done,
                   test_logs, retries, test_log_offset, ret>>

Pass(off, ln, dn, logs, res) ==
    [offset |-> off, line |-> ln, done |-> dn, test_logs |-> logs, result |-> res]

\* ParseLine with a line that does not decode skipped
ParseLine_SkipsBadLine(str) ==
    LET ev == from_json_str(str) IN
    IF str = <<>> THEN Pass(offset, line, done, test_logs, Ok)
    ELSE IF ~ev.ok THEN Pass(offset + Len(str), line + 1, done, test_logs, Err(ev.err, line))
    ELSE IF is_last_message(ev.value)
         THEN Pass(offset + Len(str), line + 1, TRUE, test_logs, Ok)
    ELSE IF is_test_summary(ev.value)
         THEN Pass(offset + Len(str), line + 1, done,
                   Append(test_logs, on_test_summary(ev.value)), NoResult)
    ELSE Pass(offset + Len(str), line + 1, done, test_logs, NoResult)

\* ParseLine going on to read after the terminal record
ParseLine_ReadsOn(str) ==
    LET ev == from_json_str(str) IN
    IF str = <<>> THEN Pass(offset, line, done, test_logs, Ok)
    ELSE IF ~ev.ok THEN Pass(offset, line, done, test_logs, Err(ev.err, line))
    ELSE IF is_last_message(ev.value)
         THEN Pass(offset + Len(str), line + 1, TRUE, test_logs, NoResult)
    ELSE IF is_test_summary(ev.value)
         THEN Pass(offset + Len(str), line + 1, done,
                   Append(test_logs, on_test_summary(ev.value)), NoResult)
    ELSE Pass(offset + Len(str), line + 1, done, test_logs, NoResult)

\* ParseLine counting the end of the file as a line
ParseLine_CountsEof(str) ==
    LET ev == from_json_str(str) IN
    IF str = <<>> THEN Pass(offset, line + 1, done, test_logs, Ok)
    ELSE IF ~ev.ok THEN Pass(offset, line, done, test_logs, Err(ev.err, line))
    ELSE IF is_last_message(ev.value)
         THEN Pass(offset + Len(str), line + 1, TRUE, test_logs, Ok)
    ELSE IF is_test_summary(ev.value)
         THEN Pass(offset + Len(str), line + 1, done,
                   Append(test_logs, on_test_summary(ev.value)), NoResult)
    ELSE Pass(offset + Len(str), line + 1, done, test_logs, NoResult)

\* ParseLine advancing the line number by the length of the line
ParseLine_LineByBytes(str) ==
    LET ev == from_json_str(str) IN
    IF str = <<>> THEN Pass(offset, line, done, test_logs, Ok)
    ELSE IF ~ev.ok THEN Pass(offset, line, done, test_logs, Err(ev.err, line))
    ELSE IF is_last_message(ev.value)
         THEN Pass(offset + Len(str), line + Len(str), TRUE, test_logs, Ok)
    ELSE IF is_test_summary(ev.value)
         THEN Pass(offset + Len(str), line + Len(str), done,
                   Append(test_logs, on_test_summary(ev.value)), NoResult)
    ELSE Pass(offset + Len(str), line + Len(str), done, test_logs, NoResult)

\* ParseLine passing over a test summary without keeping its test log
ParseLine_DropsSummary(str) ==
    LET ev == from_json_str(str) IN
    IF str = <<>> THEN Pass(offset, line, done, test_logs, Ok)
    ELSE IF ~ev.ok THEN Pass(offset, line, done, test_logs, Err(ev.err, line))
    ELSE IF is_last_message(ev.value)
         THEN Pass(offset + Len(str), line + 1, TRUE, test_logs, Ok)
    ELSE Pass(offset + Len(str), line + 1, done, test_logs, NoResult)

\* ParseLine counting a line that does not decode
ParseLine_CountsBadLine(str) ==
    LET ev == from_json_str(str) IN
    IF str = <<>> THEN Pass(offset, line, done, test_logs, Ok)
    ELSE IF ~ev.ok THEN Pass(offset, line + 1, done, test_logs, Err(ev.err, line))
    ELSE IF is_last_message(ev.value)
         THEN Pass(offset + Len(str), line + 1, TRUE, test_logs, Ok)
    ELSE IF is_test_summary(ev.value)
         THEN Pass(offset + Len(str), line + 1, done,
                   Append(test_logs, on_test_summary(ev.value)), NoResult)
    ELSE Pass(offset + Len(str), line + 1, done, test_logs, NoResult)

\* The state of the parser after one pass through the loop body of parse()
\* that read the line str into buf (buf is cleared on every pass and is not
\* kept as state); result "none" means that the loop goes on.
ParseLine(str) ==
    LET ev == from_json_str(str) IN
    IF str = <<>> THEN Pass(offset, line, done, test_logs, Ok)
    ELSE IF ~ev.ok THEN Pass(offset, line, done, test_logs, Err(ev.err, line))
    ELSE IF is_last_message(ev.value)
         THEN Pass(offset + Len(str), line + 1, TRUE, test_logs, Ok)
    ELSE IF is_test_summary(ev.value)
         THEN Pass(offset + Len(str), line + 1, done,
                   Append(test_logs, on_test_summary(ev.value)), NoResult)
    ELSE Pass(offset + Len(str), line + 1, done, test_logs, NoResult)

\* one pass through the loop of parse(): read_line, decode, update
ReadLine ==
    /\ pc = "read"
    /\ \/ /\ LET p == ParseLine(read_line(file, offset)) IN
             /\ offset' = p.offset
             /\ line' = p.line
             /\ done' = p.done
             /\ test_logs' = p.test_logs
             /\ result' = p.result
             /\ pc' = IF p.result.st = "none" THEN "read" ELSE "match"
             /\ h' = [h EXCEPT !.stable = IF p.result.st = "none" THEN @
                                          ELSE IF p.result.st = "Ok" /\ ~p.done THEN Min(@ + 1, 2)
                                          ELSE 0,
                           !.partial = IF p.result.st = "none" THEN @ ELSE Noticed(@)]
          /\ UNCHANGED ioFaults
       \/ /\ ioFaults < MaxIoFaults
          /\ ioFaults' = ioFaults + 1
          /\ result' = Err("read", 0)
          /\ pc' = "match"
          /\ h' = [h EXCEPT !.stable = 0, !.partial = Noticed(@)]
          /\ UNCHANGED <<offset, line, done, test_logs>>
    /\ UNCHANGED <<cmd, fn, script, written, mode, monitor_flaky_tests, retries, test_log_offset, ret>>

-----------------------------------------------------------------------------
(* upload(): the arms of the match on parse()'s result *)

\* the slice taken from the start, whatever test_log_offset is
NewLogs_FromStart == [i \in 1..Len(test_logs) |-> i]

\* parser.test_logs[test_log_offset..], as indices
NewLogs == [i \in 1..(Len(test_logs) - test_log_offset) |-> test_log_offset + i]

\* those of them whose status is to be uploaded
test_logs_to_upload == SelectSeq(NewLogs, LAMBDA i : test_logs[i].status \in UploadStatus)

\* an error of upload_test_logs ending upload()
AfterUpload_Propagates(uploaded) ==
    IF ~uploaded THEN "aborted" ELSE IF done THEN "after_loop" ELSE "parse"

\* where upload() goes after upload_test_logs returned: its error is only logged
AfterUpload(uploaded) == IF done THEN "after_loop" ELSE "parse"

OnOk ==
    /\ pc = "match"
    /\ result.st = "Ok"
    /\ retries' = max_retries
    /\ \E fault \in FaultPoints(TmpDir, test_logs, test_logs_to_upload, mode) :
         LET st == upload_test_logs(TmpDir, test_logs, test_logs_to_upload, mode, fault) IN
         /\ h' = [h EXCEPT !.stage = st,
                           !.slice = NewLogs,
                           !.order = @ \o NewLogs,
                           !.late = @ \/ h.errAt.n > test_log_offset,
                           !.fails = 0,
                           !.errAt = NoPos,
                           !.p0 = NoPos,
                           !.copying = @ \/ (mode # "Dry" /\
                                            StageLogs(TmpDir, test_logs, test_logs_to_upload) # <<>>)]
         /\ pc' = AfterUpload(st.ok)
    /\ test_log_offset' = Len(test_logs)
    /\ result' = NoResult
    /\ UNCHANGED <<cmd, fn, script, written, mode, monitor_flaky_tests, offset, line, done,
                   test_logs, ret, ioFaults>>

OnErr ==
    /\ pc = "match"
    /\ result.st = "Err"
    /\ retries' = retries - 1
    /\ IF retries' = 0
       THEN /\ pc' = "aborted"
            /\ ret' = result
       ELSE /\ pc' = "parse"
            /\ UNCHANGED ret
    /\ result' = NoResult
    /\ h' = [h EXCEPT !.fails = @ + 1,
                      !.errAt = IF result.kind \in DecodeErrors
                                THEN [offset |-> offset, line |-> line, n |-> Len(test_logs)]
                                ELSE NoPos,
                      !.p0 = NoPos]
    /\ UNCHANGED <<cmd, fn, script, written, mode, monitor_flaky_tests, offset, line, done,
                   test_logs, test_log_offset, ioFaults>>

-----------------------------------------------------------------------------
(* upload(): after the loop *)

\* a has_test_status that is satisfied by a test log of any status
has_test_status_AnyStatus(status) == test_logs # <<>>

\* BepJsonParser::has_test_status
has_test_status(status) == \E i \in 1..Len(test_logs) : test_logs[i].status = status

\* upload_bep_json_file
FinalUpload ==
    /\ pc = "after_loop"
    /\ pc' = "returned"
    /\ IF monitor_flaky_tests /\ has_test_status(<<"FLAKY">>)
       THEN \E backendFails \in (IF mode = "Dry" THEN {FALSE} ELSE BOOLEAN) :
               LET up == upload_artifacts(<<>>, <<<<"bep.json">>>>, mode, backendFails) IN
               /\ ret' = IF up.ok THEN Ok ELSE Err("upload", 0)
               /\ h' = [h EXCEPT !.bepUploads = @ + 1, !.bep = up]
       ELSE /\ ret' = Ok
            /\ UNCHANGED h
    /\ UNCHANGED <<cmd, fn, script, written, mode, monitor_flaky_tests, offset, line, done,
                   test_logs, retries, test_log_offset, result, ioFaults>>

-----------------------------------------------------------------------------

\* The state of upload() while test_label_to_path is called on its own
NoRun ==
    /\ script = <<>>
    /\ written = 0
    /\ mode = "Dry"
    /\ monitor_flaky_tests = FALSE
    /\ offset = 0
    /\ line = 1
    /\ done = FALSE
    /\ test_logs = <<>>
    /\ retries = max_retries
    /\ test_log_offset = 0
    /\ pc = "idle"
    /\ result = NoResult
    /\ ret = NoResult
    /\ ioFaults = 0
    /\ h = InitHistory

\* the characters of a label: the two that are replaced and two that are kept
LabelChars == {"/", ":", "f", "b"}

Labels == UNION {[1..n -> LabelChars] : n \in 0..MaxLabelLen}

\* the directories test_label_to_path is called with
Roots == {TmpDir, <<"/">>}

InitPath ==
    /\ NoRun
    /\ cmd = NoCommand
    /\ fn \in [root : Roots, label : Labels, attempt : 0..MaxAttempt,
                path : {<<>>}, pc : {"call"}]

\* the call test_label_to_path(root, label, attempt)
Call ==
    /\ fn.pc = "call"
    /\ fn' = [fn EXCEPT !.path = test_label_to_path(fn.root, fn.label, fn.attempt),
                        !.pc = "done"]
    /\ UNCHANGED <<cmd, script, written, mode, monitor_flaky_tests, offset, line, done,
                   test_logs, retries, test_log_offset, pc, result, ret, ioFaults, h>>

NextPath == Call

SpecPath == InitPath /\ [][NextPath]_vars

-----------------------------------------------------------------------------
(* buildkite::Command (agent/src/buildkite.rs) *)

\* Command::is_empty
is_empty(self) ==
    /\ self.agents = {}
    /\ self.command = ""
    /\ self.commands = <<>>
    /\ self.label = ""

\* a command() that leaves the first command where it is
command_KeepsFirst(self, c) ==
    IF is_empty(self) THEN [self EXCEPT !.command = c]
    ELSE [self EXCEPT !.commands = Append(@, c)]

\* Command::command
command(self, c) ==
    IF is_empty(self) THEN [self EXCEPT !.command = c]
    ELSE IF self.command # ""
         THEN [self EXCEPT !.command = "", !.commands = Append(Append(@, self.command), c)]
         ELSE [self EXCEPT !.commands = Append(@, c)]

\* Command::agent: HashMap::insert replaces the value of the key
agent(self, key, value) ==
    [self EXCEPT !.agents = {a \in @ : a[1] # key} \cup {<<key, value>>}]

\* Command::label
label(self, l) == [self EXCEPT !.label = l]

\* the non-empty strings command() is called with
CommandStrings == {"a.sh", "b.sh"}

AgentKeys == {"queue"}
AgentValues == {"default", "other"}
LabelStrings == {"", "build"}

InitCommand ==
    /\ NoRun
    /\ fn = NoCall
    /\ cmd = NoCommand

CallCommand ==
    /\ Len(cmd.given) < MaxCalls
    /\ \E c \in CommandStrings :
         cmd' = [self |-> command(cmd.self, c),
                 given |-> Append(cmd.given, c),
                 onDefault |-> IF cmd.given = <<>> THEN cmd.self = DefaultCommand
                               ELSE cmd.onDefault]
    /\ UNCHANGED <<fn, script, written, mode, monitor_flaky_tests, offset, line, done,
                   test_logs, retries, test_log_offset, pc, result, ret, ioFaults, h>>

CallAgent ==
    /\ \E key \in AgentKeys, value \in AgentValues :
         cmd' = [cmd EXCEPT !.self = agent(@, key, value)]
    /\ UNCHANGED <<fn, script, written, mode, monitor_flaky_tests, offset, line, done,
                   test_logs, retries, test_log_offset, pc, result, ret, ioFaults, h>>

CallLabel ==
    /\ \E l \in LabelStrings : cmd' = [cmd EXCEPT !.self = label(@, l)]
    /\ UNCHANGED <<fn, script, written, mode, monitor_flaky_tests, offset, line, done,
                   test_logs, retries, test_log_offset, pc, result, ret, ioFaults, h>>

NextCommand == CallCommand \/ CallAgent \/ CallLabel

SpecCommand == InitCommand /\ [][NextCommand]_vars

-----------------------------------------------------------------------------

Next == ProducerAppend \/ Start \/ ParseOpen \/ ReadLine \/ OnOk \/ OnErr \/ FinalUpload

Spec == Init /\ [][Next]_vars

TypeOK ==
    /\ written \in 0..Len(script)
    /\ offset \in 0..written
    /\ retries \in 0..max_retries
    /\ test_log_offset \in 0..Len(test_logs)

-----------------------------------------------------------------------------
(* Steps the properties speak of *)

\* the step is a pass of parse() through its loop that did not fail to read
ReadStep == pc = "read" /\ written' = written /\ result'.kind \notin IoErrors

-----------------------------------------------------------------------------
(* C1: a line that does not decode as a JSON object makes parse() return an *)
(* error with offset and line left at the start of that line; when the      *)
(* producer has completed the line (and whatever follows it decodes), the   *)
(* next parse() succeeds, resuming at that line: it consumes exactly the    *)
(* lines from there on and keeps the test logs found before.                *)

C1_ErrorLeavesPosition ==
    ReadStep /\ ~from_json_str(read_line(file, offset)).ok /\ read_line(file, offset) # <<>>
    => /\ result'.st = "Err"
       /\ result'.kind \in DecodeErrors
       /\ result'.line = line
       /\ pc' = "match"
       /\ UNCHANGED <<offset, line, done, test_logs>>

C1_RetryResumes ==
    /\ pc \in {"parse", "read", "match"} /\ h.errAt # NoPos /\ (pc = "parse" \/ h.stage = NoStage)
       => h.errAt.offset <= offset /\ h.errAt.line <= line /\ h.errAt.n <= Len(test_logs)
    /\ pc = "parse" /\ h.errAt # NoPos
       => h.errAt = [offset |-> offset, line |-> line, n |-> Len(test_logs)]
    /\ pc = "match" /\ h.errAt # NoPos /\ h.quiet /\ result.kind \notin IoErrors
          /\ Scan(file, h.errAt.offset).ok
       => LET r == Scan(file, h.errAt.offset) IN
          /\ result = Ok
          /\ offset = r.offset
          /\ line = h.errAt.line + r.lines
          /\ done = r.done
          /\ Len(test_logs) = h.errAt.n + Len(r.logs)
          /\ SubSeq(test_logs, h.errAt.n + 1, Len(test_logs)) = r.logs

C1_ParseErrorIsRetryable == [][C1_ErrorLeavesPosition]_vars /\ []C1_RetryResumes

\* the retry after a decode error has succeeded and found the test log of the
\* completed line
C1_Witness ==
    /\ pc = "match"
    /\ h.errAt # NoPos
    /\ h.quiet
    /\ result = Ok
    /\ offset > h.errAt.offset
    /\ Len(test_logs) > h.errAt.n

-----------------------------------------------------------------------------
(* C2: decoding a record whose lastMessage is true sets done and makes      *)
(* parse() return Ok at once; from then on no line is read and the parser   *)
(* state does not change, whatever follows the record in the file, and      *)
(* upload() leaves its loop in that iteration.                              *)

C2_TerminalStops ==
    LET str == read_line(file, offset)
        ev == from_json_str(str)
    IN ReadStep /\ ev.ok /\ is_last_message(ev.value)
       => done' /\ result' = Ok /\ pc' = "match" /\ offset' = offset + Len(str)

C2_NothingReadAfterDone ==
    done => /\ pc' \notin {"parse", "read"}
            /\ done'
            /\ UNCHANGED <<offset, line, test_logs>>
            /\ (pc = "match" /\ pc' # pc => pc' = "after_loop")

C2_DoneInv ==
    done => /\ pc \in {"match", "after_loop", "returned"}
            /\ pc = "match" => result = Ok
            /\ LET r == Scan(SubSeq(file, 1, offset), 0) IN
               r.done /\ r.offset = offset /\ r.logs = test_logs

C2_LastMessageEndsRun ==
    [][C2_TerminalStops]_vars /\ [][C2_NothingReadAfterDone]_vars /\ []C2_DoneInv

\* upload() has returned although a test summary follows the terminal record
C2_Witness ==
    /\ pc = "returned"
    /\ done
    /\ written = Len(script)
    /\ offset < written
    /\ Scan(file, offset).logs # <<>>
    /\ test_logs = <<>>

-----------------------------------------------------------------------------
(* C3: once parse() has returned Ok without done, further parse() calls on  *)
(* the unchanged file (that can open and read it) return Ok and leave       *)
(* offset, line, done and the test logs as they are.                        *)

C3_IdleStep ==
    ReadStep /\ h.stable >= 1
    => /\ result' = Ok
       /\ pc' = "match"
       /\ ~done'
       /\ UNCHANGED <<offset, line, done, test_logs>>

C3_ParseIdempotent == [][C3_IdleStep]_vars /\ [](h.stable >= 1 => ~done /\ offset = written)

\* a second parse() has returned on a file that has not changed since the
\* first one returned Ok
C3_Witness == h.stable = 2 /\ pc = "match" /\ result = Ok /\ offset > 0 /\ test_logs # <<>>

-----------------------------------------------------------------------------
(* C4: every test log is passed to the stager at most once, as part of the  *)
(* slice [test_log_offset, len) of an iteration whose parse() returned Ok,  *)
(* after which test_log_offset is the number of test logs; when the loop    *)
(* has ended with done, every test log has been passed exactly once, in     *)
(* order, also those found by a parse() that returned an error.             *)

Qualifies(e) == test_logs[e].status \in {<<"FAILED">>, <<"TIMEOUT">>, <<"FLAKY">>}

OkArmStep == pc = "match" /\ result.st = "Ok" /\ pc' # pc

C4_Forwarded ==
    /\ test_log_offset <= Len(test_logs)
    /\ h.order = [i \in 1..test_log_offset |-> i]
    /\ pc \in {"after_loop", "returned"} => done /\ test_log_offset = Len(test_logs)

C4_Slice ==
    OkArmStep
    => /\ h'.slice = [i \in 1..(Len(test_logs) - test_log_offset) |-> test_log_offset + i]
       /\ h'.stage.called
       /\ h'.stage.logs = SelectSeq(h'.slice, Qualifies)
       /\ h'.order = h.order \o h'.slice
       /\ test_log_offset' = Len(test_logs')

C4_ForwardedOnce == []C4_Forwarded /\ [][C4_Slice]_vars

\* the run ended with done after passing on a test log that a failing
\* parse() had found
C4_Witness == pc = "returned" /\ done /\ h.late /\ h.order = <<1>> /\ ret = Ok

-----------------------------------------------------------------------------
(* C5: upload() aborts exactly when 5 parse() calls in a row have failed,   *)
(* returning the error of the last of them; every parse() that returns Ok   *)
(* sets the counter back to 5, and while the loop runs the counter is       *)
(* between 1 and 5.                                                         *)

C5_Budget ==
    /\ pc \in {"start", "parse", "read", "match"} => retries \in 1..5 /\ h.fails < 5
    /\ retries = 5 - h.fails
    /\ pc = "aborted" <=> h.fails = 5
    /\ pc = "aborted" => ret.st = "Err" /\ ~done

C5_Arms ==
    /\ OkArmStep => retries' = 5
    /\ pc # "aborted" /\ pc' = "aborted" => result.st = "Err" /\ ret' = result /\ h.fails = 4
    /\ pc = "match" /\ result.st = "Err" /\ pc' # pc => h'.fails = h.fails + 1

C5_AbortAfterFiveFailures == []C5_Budget /\ [][C5_Arms]_vars

\* the fifth failure in a row has aborted the run
C5_Witness == pc = "aborted" /\ h.fails = 5 /\ retries = 0 /\ ret.kind \in DecodeErrors

-----------------------------------------------------------------------------
(* C6: offset and line never decrease and change only when a line has been  *)
(* decoded; done never goes back to false; test_logs only grows at its end. *)

C6_Step ==
    /\ offset' >= offset
    /\ line' >= line
    /\ offset' # offset \/ line' # line
       => /\ pc = "read"
          /\ from_json_str(read_line(file, offset)).ok
          /\ offset' = offset + Len(read_line(file, offset))
          /\ line' = line + 1
    /\ done => done'
    /\ Len(test_logs') >= Len(test_logs)
    /\ SubSeq(test_logs', 1, Len(test_logs)) = test_logs

C6_ParserMonotone == [][C6_Step]_vars

\* a run that failed to decode a line, later decoded two records and is done
C6_Witness == done /\ line = 3 /\ offset > 0 /\ test_logs # <<>> /\ h.late

-----------------------------------------------------------------------------
(* C7: a test log whose status is not FAILED, TIMEOUT or FLAKY is never     *)
(* copied or staged, and a slice holding only such test logs causes no      *)
(* directory, copy, artifact, report or backend call.                       *)

C7_Filtered ==
    /\ \A k \in 1..Len(h.stage.logs) : Qualifies(h.stage.logs[k])
    /\ \A k \in 1..Len(h.stage.copies) : Qualifies(h.stage.copies[k].e)
    /\ \A k \in 1..Len(h.stage.staged) : Qualifies(h.stage.staged[k].e)
    /\ (\A i \in 1..Len(h.slice) : ~Qualifies(h.slice[i]))
       => /\ h.stage.mkdirs = <<>>
          /\ h.stage.copies = <<>>
          /\ h.stage.artifacts = <<>>
          /\ h.stage.printed = <<>>
          /\ h.stage.backend = <<>>

\* a PASSED test log and one without status, both with a local output file,
\* have been passed on in a non-dry run
C7_Witness ==
    /\ h.stage.called
    /\ mode = "Buildkite"
    /\ Len(h.slice) = 2
    /\ test_logs[h.slice[1]].status = <<"PASSED">>
    /\ test_logs[h.slice[2]].status = <<>>
    /\ \A i \in 1..2 : \E j \in 1..Len(test_logs[h.slice[i]].paths) :
          starts_with(test_logs[h.slice[i]].paths[j], "file://")

-----------------------------------------------------------------------------
(* C8: a staged test log with exactly one output path is staged as          *)
(* test.log; with k > 1 output paths its i-th output path, counting all of  *)
(* its output paths, is staged as attempt_i.log.                            *)

FileNameOf(path) == path[Len(path)]

C8_AttemptIsPathIndex ==
    \A k \in 1..Len(h.stage.staged) :
       LET it == h.stage.staged[k] IN
       FileNameOf(it.new_path) =
          IF Len(test_logs[it.e].paths) = 1 THEN "test.log"
          ELSE "attempt_" \o ToString(it.j) \o ".log"

-----------------------------------------------------------------------------
(* C9: when the batch of staged destination paths is empty, the backend is  *)
(* not invoked.                                                             *)

C9_EmptyBatchNoBackend ==
    h.stage.called /\ h.stage.artifacts = <<>> => h.stage.backend = <<>>

-----------------------------------------------------------------------------
(* C10: a failure of upload_test_logs (directory creation, copy or backend) *)
(* does not end upload() and does not touch the retry counter: the cursor   *)
(* advances past the slice and the loop goes on (or ends because of done).  *)

C10_Step ==
    OkArmStep /\ ~h'.stage.ok
    => /\ retries' = 5
       /\ test_log_offset' = Len(test_logs)
       /\ pc' = IF done THEN "after_loop" ELSE "parse"
       /\ ret' = ret

C10_UploadErrorsSwallowed ==
    [][C10_Step]_vars /\ [](pc = "aborted" => ret.kind \in DecodeErrors \cup IoErrors)

\* the loop goes on after a failed copy or backend call
C10_Witness ==
    /\ ~h.stage.ok
    /\ pc = "parse"
    /\ retries = 5
    /\ h.slice # <<>>
    /\ test_log_offset = Len(test_logs)
    /\ ret = NoResult

-----------------------------------------------------------------------------
(* C11: the whole-file upload of the source log is performed exactly once   *)
(* if and only if the loop ended with done = TRUE, monitor_flaky_tests is   *)
(* set and some test log has status FLAKY; it is never performed when the   *)
(* loop aborts (or before upload() returns); when it is performed and       *)
(* fails, upload() returns that failure, and otherwise a run that left the  *)
(* loop with done returns Ok.  In dry mode "performed" is the report of the *)
(* path by upload_artifacts.                                                *)

FlakySeen == \E i \in 1..Len(test_logs) : test_logs[i].status = <<"FLAKY">>

C11_WholeFileUpload ==
    /\ h.bepUploads = IF pc = "returned" /\ monitor_flaky_tests /\ FlakySeen THEN 1 ELSE 0
    /\ pc = "returned" => done
    /\ pc = "returned" => (ret.st = "Err" <=> h.bepUploads = 1 /\ ~h.bep.ok)
    /\ pc = "returned" /\ ret.st = "Err" => ret.kind = "upload"
    /\ pc = "returned" /\ ret.st # "Err" => ret = Ok
    /\ pc = "aborted" => h.bepUploads = 0 /\ ret.kind # "upload"

C11_Witness ==
    /\ pc = "returned"
    /\ h.bepUploads = 1
    /\ ~h.bep.ok
    /\ ret = Err("upload", 0)
    /\ h.bep.backend = <<[cwd |-> <<>>, artifacts |-> <<<<"bep.json">>>>]>>

-----------------------------------------------------------------------------
(* C12: when every line from the parser's offset to the end of the file     *)
(* decodes as a JSON object and none of them is a terminal record, parse()  *)
(* returns Ok with done left FALSE, offset at the end of the file and line  *)
(* advanced by the number of lines read.  The file is the one parse() was   *)
(* called on: nothing is appended during the call, and open, seek and       *)
(* read_line do not fail.                                                   *)

\* parse() has returned, undisturbed, from a call at position h.p0
Returned == pc = "match" /\ h.quiet /\ result.kind \notin IoErrors

C12_CleanTailIsConsumed ==
    Returned /\ Scan(file, h.p0.offset).ok /\ ~Scan(file, h.p0.offset).done
        => /\ result = Ok
           /\ ~done
           /\ offset = Len(file)
           /\ line = h.p0.line + Scan(file, h.p0.offset).lines

\* parse() read two lines, the second one without its newline
C12_Witness ==
    /\ Returned
    /\ h.p0.line = 1
    /\ Scan(file, h.p0.offset).ok
    /\ Scan(file, h.p0.offset).lines = 2
    /\ file[Len(file)] # "\n"
    /\ result = Ok
    /\ offset = Len(file)

-----------------------------------------------------------------------------
(* C13: test_label_to_path(root, label, attempt) is root joined with the    *)
(* label in which every "/" and ":" is a separator and the leading          *)
(* separators are gone, followed by test.log when attempt = 0 and by        *)
(* attempt_<attempt>.log otherwise; the result lies under root.  Paths are  *)
(* compared as Path compares them, component by component.                  *)

\* the non-empty pieces of s between the elements of seps
RECURSIVE Split(_, _)
Split(s, seps) ==
    IF s = <<>> THEN <<>>
    ELSE IF Head(s) \in seps THEN Split(Tail(s), seps)
    ELSE LET n == CHOOSE n \in 2..(Len(s) + 1) :
                      /\ n = Len(s) + 1 \/ s[n] \in seps
                      /\ \A i \in 1..(n - 1) : s[i] \notin seps
         IN <<SubSeq(s, 1, n - 1)>> \o Split(SubSeq(s, n, Len(s)), seps)

Components(path) == Split(path, {MAIN_SEPARATOR})

IsAbsolute(path) == path # <<>> /\ Head(path) = MAIN_SEPARATOR

IsPrefix(a, b) == Len(a) <= Len(b) /\ SubSeq(b, 1, Len(a)) = a

ExpectedFileName(attempt) ==
    CASE attempt = 0 -> "test.log"
      [] attempt = 1 -> "attempt_1.log"
      [] attempt = 2 -> "attempt_2.log"
      [] attempt = 3 -> "attempt_3.log"
      [] OTHER -> "attempt_" \o ToString(attempt) \o ".log"

C13_LabelToPath ==
    fn.pc = "done" =>
        /\ IsAbsolute(fn.path)
        /\ Components(fn.path) = Components(fn.root) \o Split(fn.label, {"/", ":"})
                                    \o <<<<ExpectedFileName(fn.attempt)>>>>
        /\ IsPrefix(Components(fn.root), Components(fn.path))
        /\ Len(Components(fn.path)) > Len(Components(fn.root))

\* "//f/b", attempt 1 -> root/f/b/attempt_1.log
C13_Witness ==
    /\ fn.pc = "done"
    /\ fn.root = TmpDir
    /\ fn.label = <<"/", "/", "f", "/", "b">>
    /\ fn.attempt = 1
    /\ fn.path = <<"/", "tmp", "/", "bazelci-agent", "/", "f", "/", "b", "/", "attempt_1.log">>

-----------------------------------------------------------------------------
(* C14: the destination path is built from the label by replacing "/" and   *)
(* ":" only, every other character kept in its place, and by stripping      *)
(* leading separators.                                                      *)

\* the number of "/" and ":" the label starts with
LeadingSeparators(str) ==
    CHOOSE k \in 0..Len(str) :
        /\ \A i \in 1..k : str[i] \in {"/", ":"}
        /\ k < Len(str) => str[k + 1] \notin {"/", ":"}

\* a followed by b, with one separator between them where a does not end in one
Glue(a, b) ==
    IF a = <<>> \/ a[Len(a)] = MAIN_SEPARATOR THEN a \o b ELSE a \o <<MAIN_SEPARATOR>> \o b

\* the destination path when the first k characters of the label are stripped
\* and, of the others, "/" and ":" are replaced
PathStripping(k) ==
    LET rest == [i \in 1..(Len(fn.label) - k) |->
                    IF fn.label[k + i] \in {"/", ":"} THEN MAIN_SEPARATOR ELSE fn.label[k + i]]
    IN join(fn.root, Glue(rest, <<ExpectedFileName(fn.attempt)>>))

\* C14 as stated: exactly one leading separator is stripped, however many
\* separators the label starts with
C14_StripsOneSeparator ==
    fn.pc = "done" => fn.path = PathStripping(IF LeadingSeparators(fn.label) > 0 THEN 1 ELSE 0)

\* C14 amended: all the leading separators are stripped
C14_StripsLeadingSeparators ==
    fn.pc = "done" => fn.path = PathStripping(LeadingSeparators(fn.label))

\* "//:f", attempt 0 -> root/f/test.log
C14_Witness ==
    /\ fn.pc = "done"
    /\ fn.root = TmpDir
    /\ fn.label = <<"/", "/", ":", "f">>
    /\ fn.attempt = 0
    /\ fn.path = <<"/", "tmp", "/", "bazelci-agent", "/", "f", "/", "test.log">>

-----------------------------------------------------------------------------
(* C15: the staging root directory is created at most once per run.         *)

\* C15 as stated: it is created only when a real (non-dry) file copy is about
\* to occur, so that a non-dry run in which no entry is ever staged has
\* created no staging directory
C15_TmpdirOnlyForCopy ==
    /\ h.tmpdirs <= 1
    /\ h.tmpdirs = 1 => h.copying

\* C15 amended: it is created when a non-dry run starts, before the first
\* parse(), whether or not an entry is ever staged, and never in a dry run
C15_TmpdirOncePerRealRun ==
    h.tmpdirs = IF mode # "Dry" /\ pc # "start" THEN 1 ELSE 0

\* a non-dry run that has ended with a test log found and nothing ever staged
C15_Witness ==
    /\ mode # "Dry"
    /\ pc = "returned"
    /\ test_logs # <<>>
    /\ ~h.copying
    /\ h.tmpdirs = 1

-----------------------------------------------------------------------------
(* C16: in dry mode upload() leaves the file system and the backend alone:  *)
(* no staging directory and no parent directory is created, no file is      *)
(* copied, no external command is run; the destination path of every file   *)
(* that would be staged, and the source log at the end, are reported only.  *)

C16_DryRunTouchesNothing ==
    mode = "Dry" =>
        /\ h.tmpdirs = 0
        /\ ~h.copying
        /\ h.stage.mkdirs = <<>>
        /\ h.stage.copies = <<>>
        /\ h.stage.backend = NoBackendCall
        /\ h.stage.ok
        /\ h.stage.printed = [k \in 1..Len(h.stage.staged) |-> h.stage.staged[k].new_path]
        /\ h.stage.called =>
              Len(h.stage.staged) = Len(StageLogs(TmpDir, test_logs, h.stage.logs))
        /\ h.bep.backend = NoBackendCall
        /\ h.bep.ok
        /\ h.bepUploads = 1 => h.bep.printed = <<<<"bep.json">>>>

\* a dry run that reported two destination paths in one iteration
C16_Witness ==
    /\ mode = "Dry"
    /\ Len(h.stage.printed) = 2
    /\ h.stage.printed[1] # h.stage.printed[2]

-----------------------------------------------------------------------------
(* C17: what an I/O fault (open, seek or read of the source log in parse(), *)
(* copy of a test log while staging) does to the run, and whether its error *)
(* names the file.                                                          *)

\* upload() handles the result of a parse() call that failed to open, seek or read
IoFaultStep == pc = "match" /\ result.kind \in IoErrors /\ pc' # pc

\* upload() handles an Ok result and the copy of a test log fails
CopyFailedStep ==
    /\ OkArmStep
    /\ ~h'.stage.ok
    /\ Len(h'.stage.copies) < Len(h'.stage.mkdirs)

\* C17 as stated: every I/O fault ends upload() with that error, and the
\* error carries the path of the file
C17_IoFaultIsFatal ==
    /\ [][IoFaultStep => pc' = "aborted" /\ ret' = result]_vars
    /\ [][CopyFailedStep => pc' = "aborted" /\ ret'.st = "Err"]_vars
    /\ [](result.kind \in IoErrors => result.path)

C17_Step ==
    /\ IoFaultStep =>
          /\ retries' = retries - 1
          /\ IF retries = 1 THEN pc' = "aborted" /\ ret' = result
                            ELSE pc' = "parse" /\ ret' = ret
    /\ CopyFailedStep =>
          /\ retries' = max_retries
          /\ pc' = IF done THEN "after_loop" ELSE "parse"
          /\ ret' = ret

C17_Context ==
    /\ result.kind \in {"open", "seek"} => result.path
    /\ result.kind = "read" => ~result.path
    /\ ret.kind \in {"open", "seek"} => ret.path
    /\ ret.kind = "read" => ~ret.path

\* C17 amended: a failure to open, seek or read costs one retry, like a line
\* that does not decode, and ends upload() only as the fifth failure in a
\* row; a failure to copy is swallowed and the loop goes on; the errors of
\* open and seek name the file, the error of read_line does not
C17_IoFaultsAreRetried == [][C17_Step]_vars /\ []C17_Context

\* the run goes on after a failure to open, seek or read
C17_Witness ==
    /\ pc = "parse"
    /\ ioFaults = 1
    /\ h.fails = 1
    /\ h.errAt = NoPos
    /\ retries = max_retries - 1

-----------------------------------------------------------------------------
(* C18: a test summary whose label, overall status, list of failed outputs  *)
(* or uri of a failed output is missing or of the wrong type does not make  *)
(* parse() fail: one test log is appended, with the empty string for the    *)
(* missing label, status or uri and no path for the missing list.           *)

\* the summaries with something missing or of the wrong type
Malformed == {"S4", "S5", "S6"}

\* the test log each of them must yield
Defaulted(tok) ==
    CASE tok = "S4" -> [target |-> <<>>, status |-> <<"TIMEOUT">>, paths |-> << <<>> >>]
      [] tok = "S5" -> [target |-> <<"/", "/", "f", ":", "b">>, status |-> <<>>,
                        paths |-> << <<"file://", "x">> >>]
      [] tok = "S6" -> [target |-> <<>>, status |-> <<>>, paths |-> <<>>]

C18_Step ==
    \A tok \in Malformed :
        ReadStep /\ read_line(file, offset) \in {<<"{", tok, "}", "\n">>, <<"{", tok, "}">>}
            => /\ result'.st # "Err"
               /\ test_logs' = Append(test_logs, Defaulted(tok))
               /\ offset' = offset + Len(read_line(file, offset))
               /\ line' = line + 1

C18_MalformedSummaryDefaults == [][C18_Step]_vars

\* parse() returned Ok after a summary with nothing usable in it and one
\* with a number for a label and a failed output without uri
C18_Witness ==
    /\ pc = "match"
    /\ result = Ok
    /\ test_logs = <<Defaulted("S6"), Defaulted("S4")>>

-----------------------------------------------------------------------------
(* C20: after any sequence of appends and parse() calls, offset is 0 or the *)
(* position just past a newline of the file: parse() consumes records that  *)
(* are terminated by a newline only.                                        *)

C20_OffsetAfterNewline == offset = 0 \/ file[offset] = "\n"

-----------------------------------------------------------------------------
(* C19: if the producer appends, in chunks of any size, a log that in the   *)
(* end consists of newline-terminated object records only, the last one the *)
(* terminal record, and leaves no record incomplete across 5 consecutive    *)
(* calls of parse(), and no open, seek or read fails, then upload() does    *)
(* not abort (and in the end leaves the loop with done = TRUE).             *)

C19_TailingNeverAborts ==
    WellFormed(script) /\ h.partial < 5 /\ ioFaults = 0 => pc # "aborted"

-----------------------------------------------------------------------------
(* C21: under any interleaving of the appending producer with parse()       *)
(* calls, test_logs is the sequence of the test logs of the test summaries  *)
(* that are not terminal records and lie before offset in the file, in the  *)
(* order of the file: no record yields two test logs, also not after a      *)
(* parse() that failed and was retried, and none before offset is skipped.  *)

C21_EntriesMatchFile ==
    LET r == Scan(SubSeq(file, 1, offset), 0) IN
    /\ r.ok
    /\ r.offset = offset
    /\ r.logs = test_logs

\* a test log found by a parse() that then failed is still there, once,
\* after a later parse() succeeded and another summary was read
C21_Witness ==
    /\ h.late
    /\ Len(test_logs) = 2
    /\ pc = "match"
    /\ result = Ok

\* a terminal record that is a test summary as well was read
C21_TerminalSummaryRead ==
    /\ done
    /\ offset >= 5
    /\ SubSeq(file, offset - 4, offset) = <<"{", "S2", "L", "}", "\n">>

-----------------------------------------------------------------------------
(* C22: whenever the loop of upload() has ended, through done or through    *)
(* the exhausted retry budget, test_log_offset equals the number of test    *)
(* logs: every test log parse() has found, also by a call that then failed  *)
(* on a later line, was passed on to upload_test_logs.                      *)

C22_CursorAtEnd ==
    pc \in {"after_loop", "returned", "aborted"} =>
        /\ test_log_offset = Len(test_logs)
        /\ h.order = [i \in 1..Len(test_logs) |-> i]

-----------------------------------------------------------------------------
(* C23: if a parse() call made progress (it advanced offset by decoding at  *)
(* least one new line), upload() resets retries to max_retries in that      *)
(* iteration: an iteration that makes progress does not bring the run       *)
(* closer to aborting.                                                      *)

\* upload() handles the result of a parse() call that advanced offset
ProgressStep == pc = "match" /\ pc' # pc /\ offset > h.p0.offset

C23_Step == ProgressStep => retries' = max_retries /\ pc' # "aborted"

C23_ProgressResetsRetries == [][C23_Step]_vars

-----------------------------------------------------------------------------
(* C24: for a buildkite Command, after any sequence of command() calls with *)
(* non-empty strings, interleaved with agent() and label() calls or not,    *)
(* command and commands are never both non-empty and together hold every    *)
(* given command once, in call order; after exactly one command() call,     *)
(* made on a Command that was as Command::default() made it, the command is *)
(* in command and commands is empty; after two or more calls all commands   *)
(* are in commands and command is empty.                                    *)

\* what the two fields hold, command first
Held == (IF cmd.self.command = "" THEN <<>> ELSE <<cmd.self.command>>) \o cmd.self.commands

C24_CommandFields ==
    /\ ~(cmd.self.command # "" /\ cmd.self.commands # <<>>)
    /\ Held = cmd.given
    /\ Len(cmd.given) = 1 /\ cmd.onDefault =>
          cmd.self.command = cmd.given[1] /\ cmd.self.commands = <<>>
    /\ Len(cmd.given) >= 2 => cmd.self.command = "" /\ cmd.self.commands = cmd.given

\* three commands, the first one given to a default Command, a label set
\* between the first and the second
C24_Witness ==
    /\ cmd.onDefault
    /\ cmd.given = <<"a.sh", "b.sh", "a.sh">>
    /\ cmd.self.commands = <<"a.sh", "b.sh", "a.sh">>
    /\ cmd.self.command = ""
    /\ cmd.self.label = "build"
    /\ cmd.self.agents = {<<"queue", "default">>}

\* the one command given after agent() or label() is in commands
C24_SingleCommandAfterAgent ==
    /\ Len(cmd.given) = 1
    /\ ~cmd.onDefault
    /\ cmd.self.command = ""
    /\ cmd.self.commands = cmd.given

====
